---- MODULE Spec2Model ----
(***************************************************************************)
(* Command queue of the eSSL / ZKTeco mock server (src/server.js).         *)
(*                                                                         *)
(* The server keeps two maps, deviceCommands (SN -> array of commands) and *)
(* deviceSeq (SN -> last id).  Every express handler is synchronous, so    *)
(* each request is one atomic step.  Strings that the code formats or      *)
(* parses (command text, the poll response, the info payload of an ack,    *)
(* the ID field) are sequences of one-character strings, and the           *)
(* conversions (template literals, split, trim, Number) are computed.      *)
(***************************************************************************)
EXTENDS Integers, Sequences, FiniteSets

(* ------------------------------ bounds -------------------------------- *)
\* total number of commands the operator side enqueues in one run
MaxCmds == 2
\* number of distinct instants new Date() can return in one run
MaxClock == 2

(* ------------------------- string primitives -------------------------- *)
\* serial numbers the requests carry
Devices == {"A1", "B2"}

Digits == <<"0", "1", "2", "3", "4", "5", "6", "7", "8", "9">>

WhiteSpace == {" ", "\t", "\r", "\n"}

\* Number("...") of a string that is not a numeric literal
NaN == -1

OK == <<"O", "K">>

ERR == <<"E", "R", "R">>

CHECK == <<"C", "H", "E", "C", "K">>

DATA_QUERY_ATTLOG == <<"D", "A", "T", "A", " ", "Q", "U", "E", "R", "Y", " ", "A", "T", "T", "L", "O", "G">>

\* `${n}` for a non-negative integer n
RECURSIVE ToString(_)
ToString(n) ==
  IF n < 10 THEN <<Digits[n + 1]>>
  ELSE ToString(n \div 10) \o <<Digits[(n % 10) + 1]>>

\* String.prototype.trim
RECURSIVE TrimLeft(_)
TrimLeft(s) ==
  IF s # <<>> /\ Head(s) \in WhiteSpace THEN TrimLeft(Tail(s)) ELSE s

RECURSIVE TrimRight(_)
TrimRight(s) ==
  IF s # <<>> /\ s[Len(s)] \in WhiteSpace
  THEN TrimRight(SubSeq(s, 1, Len(s) - 1))
  ELSE s

Trim(s) == TrimRight(TrimLeft(s))

IsDigit(ch) == ch \in {"0", "1", "2", "3", "4", "5", "6", "7", "8", "9"}

DigitValue(ch) ==
  CASE ch = "0" -> 0 [] ch = "1" -> 1 [] ch = "2" -> 2 [] ch = "3" -> 3 [] ch = "4" -> 4
    [] ch = "5" -> 5 [] ch = "6" -> 6 [] ch = "7" -> 7 [] ch = "8" -> 8 [] ch = "9" -> 9

RECURSIVE DecimalValue(_)
DecimalValue(s) ==
  IF s = <<>> THEN 0
  ELSE 10 * DecimalValue(SubSeq(s, 1, Len(s) - 1)) + DigitValue(s[Len(s)])

\* Number(s) for the strings the model feeds it: optional surrounding white
\* space around decimal digits, the empty string (0), anything else NaN.
Number(s) ==
  LET t == Trim(s) IN
    IF \A i \in 1..Len(t) : IsDigit(t[i]) THEN DecimalValue(t) ELSE NaN

\* s.split(sep) for a one-character separator: the scan from position i of
\* the field that began at position start
RECURSIVE SplitFrom(_, _, _, _)
SplitFrom(s, sep, i, start) ==
  IF i > Len(s) THEN <<SubSeq(s, start, Len(s))>>
  ELSE IF s[i] = sep
  THEN <<SubSeq(s, start, i - 1)>> \o SplitFrom(s, sep, i + 1, i + 1)
  ELSE SplitFrom(s, sep, i + 1, start)

Split(s, sep) == SplitFrom(s, sep, 1, 1)

\* s.split(/\r?\n/): a line ends before "\n", or before the "\r" in front of it
RECURSIVE SplitLinesFrom(_, _, _)
SplitLinesFrom(s, i, start) ==
  IF i > Len(s) THEN <<SubSeq(s, start, Len(s))>>
  ELSE IF s[i] = "\n"
  THEN <<SubSeq(s, start, IF i > start /\ s[i - 1] = "\r" THEN i - 2 ELSE i - 1)>>
       \o SplitLinesFrom(s, i + 1, i + 1)
  ELSE SplitLinesFrom(s, i + 1, start)

SplitLines(s) == SplitLinesFrom(s, 1, 1)

\* parts.join(sep)
RECURSIVE Join(_, _)
Join(parts, sep) ==
  IF parts = <<>> THEN <<>>
  ELSE IF Len(parts) = 1 THEN parts[1]
  ELSE parts[1] \o sep \o Join(Tail(parts), sep)

\* FindIndex matching sent commands only
FindIndex_SentOnly(arr, id) ==
  IF \E i \in 1..Len(arr) : arr[i].id = id /\ arr[i].status = "sent"
  THEN CHOOSE i \in 1..Len(arr) : arr[i].id = id /\ arr[i].status = "sent"
  ELSE 0

\* arr.findIndex((c) => c.id === id), with 0 for the -1 of a miss (sequences
\* start at 1)
FindIndex(arr, id) ==
  IF \E i \in 1..Len(arr) : arr[i].id = id
  THEN CHOOSE i \in 1..Len(arr) : arr[i].id = id /\ \A j \in 1..(i - 1) : arr[j].id # id
  ELSE 0

\* Splice with the removal left out
Splice_Keep(arr, idx) == arr

\* Splice without the delete count: arr.splice(idx) drops the tail as well
Splice_Rest(arr, idx) == SubSeq(arr, 1, idx - 1)

\* arr.splice(idx, 1) for a hit
Splice(arr, idx) == SubSeq(arr, 1, idx - 1) \o SubSeq(arr, idx + 1, Len(arr))

(* ------------------------------- maps --------------------------------- *)
\* Map.prototype.get(k) || dflt
GetOr(map, k, dflt) == IF k \in DOMAIN map THEN map[k] ELSE dflt

\* Map.prototype.set
MapSet(map, k, v) == [x \in (DOMAIN map) \cup {k} |-> IF x = k THEN v ELSE map[x]]

\* MapDelete as Map.prototype.clear
MapDelete_Clear(map, k) == [x \in {} |-> map[x]]

\* Map.prototype.delete
MapDelete(map, k) == [x \in (DOMAIN map) \ {k} |-> map[x]]

EmptyMap == [x \in {} |-> 0]

(* -------------------------- request fields ---------------------------- *)
\* a query or body field: undefined, or a string
Absent == [present |-> FALSE]

Val(v) == [present |-> TRUE, value |-> v]

\* req.query.SN || ""  (serial numbers are atomic strings)
SNOrEmpty(f) == IF f.present THEN f.value ELSE ""

\* field || ""  for a text field
TextOrEmpty(f) == IF f.present THEN f.value ELSE <<>>

\* !SN for a body field holding a serial number
FalsySN(f) == (~f.present) \/ f.value = ""

\* !field for a body field holding text
FalsyText(f) == (~f.present) \/ f.value = <<>>

(* ------------------------------ state --------------------------------- *)
VARIABLES
  deviceCommands,  \* Map<SN, Array<command>>
  deviceSeq,       \* Map<SN, lastId>
  now,             \* the instant new Date() returns
  last,            \* the request handled last: its route, response and log lines
  assigned,        \* history: per device, the ids nextCommandIdFor returned, in order
  delivered,       \* history: per device, the ids sent in poll responses, in order
  acked            \* history: per device, the ids an ack found and removed

vars == <<deviceCommands, deviceSeq, now, last, assigned, delivered, acked>>

(* ------------------------- queue operations --------------------------- *)
\* nextCommandIdFor without deviceSeq.set(sn, next)
nextCommandIdFor_NoStore(ds, sn) ==
  LET lastId == GetOr(ds, sn, 0)
      next == lastId + 1
  IN [deviceSeq |-> ds, id |-> next]

nextCommandIdFor(ds, sn) ==
  LET lastId == GetOr(ds, sn, 0)
      next == lastId + 1
  IN [deviceSeq |-> MapSet(ds, sn, next), id |-> next]

\* queueCommand with arr.unshift(cmd) for arr.push(cmd)
queueCommand_Unshift(dc, ds, sn, commandText, t) ==
  LET n == nextCommandIdFor(ds, sn)
      cmd == [id |-> n.id, command |-> commandText, status |-> "pending", queuedAt |-> t]
      arr == <<cmd>> \o GetOr(dc, sn, <<>>)
  IN [deviceCommands |-> MapSet(dc, sn, arr), deviceSeq |-> n.deviceSeq, cmd |-> cmd]

\* queueCommand storing a fresh array instead of pushing onto the old one
queueCommand_Replace(dc, ds, sn, commandText, t) ==
  LET n == nextCommandIdFor(ds, sn)
      cmd == [id |-> n.id, command |-> commandText, status |-> "pending", queuedAt |-> t]
  IN [deviceCommands |-> MapSet(dc, sn, <<cmd>>), deviceSeq |-> n.deviceSeq, cmd |-> cmd]

queueCommand(dc, ds, sn, commandText, t) ==
  LET n == nextCommandIdFor(ds, sn)
      cmd == [id |-> n.id, command |-> commandText, status |-> "pending", queuedAt |-> t]
      arr == Append(GetOr(dc, sn, <<>>), cmd)
  IN [deviceCommands |-> MapSet(dc, sn, arr), deviceSeq |-> n.deviceSeq, cmd |-> cmd]

\* c.status = "sent"; c.sentAt = now
MarkSent(c, t) ==
  [f \in (DOMAIN c) \cup {"sentAt"} |->
     IF f = "status" THEN "sent" ELSE IF f = "sentAt" THEN t ELSE c[f]]

\* cmd.status = "done"; cmd.doneAt = ...; cmd.deviceAck = status
MarkDone(c, t, ack) ==
  [f \in (DOMAIN c) \cup {"doneAt", "deviceAck"} |->
     IF f = "status" THEN "done"
     ELSE IF f = "doneAt" THEN t
     ELSE IF f = "deviceAck" THEN ack
     ELSE c[f]]

\* `C:${c.id}:${c.command}`
CommandLine(c) == <<"C", ":">> \o ToString(c.id) \o <<":">> \o c.command

IsPending(c) == c.status = "pending"

\* GetRequest taking the commands it sends out of the queue
GetRequest_RemoveSent(dc, query, t) ==
  LET SN == SNOrEmpty(query.SN)
      all == GetOr(dc, SN, <<>>)
      pending == SelectSeq(all, IsPending)
      lines == [i \in 1..Len(pending) |-> CommandLine(pending[i])]
      kept == SelectSeq(all, LAMBDA c : ~IsPending(c))
      responseText == Join(lines, <<"\n">>) \o <<"\n">>
  IN IF SN = "" THEN [deviceCommands |-> dc, body |-> OK, sent |-> <<>>]
     ELSE IF Len(pending) = 0 THEN [deviceCommands |-> dc, body |-> OK, sent |-> <<>>]
     ELSE [deviceCommands |-> IF Len(kept) = 0 THEN MapDelete(dc, SN) ELSE MapSet(dc, SN, kept),
           body |-> responseText,
           sent |-> [i \in 1..Len(pending) |-> pending[i].id]]

\* GetRequest marking every pending command sent but answering the first only
GetRequest_FirstLineOnly(dc, query, t) ==
  LET SN == SNOrEmpty(query.SN)
      all == GetOr(dc, SN, <<>>)
      pending == SelectSeq(all, IsPending)
      lines == <<CommandLine(pending[1])>>
      marked == [i \in 1..Len(all) |->
                   IF IsPending(all[i]) THEN MarkSent(all[i], t) ELSE all[i]]
      responseText == Join(lines, <<"\n">>) \o <<"\n">>
  IN IF SN = "" THEN [deviceCommands |-> dc, body |-> OK, sent |-> <<>>]
     ELSE IF Len(pending) = 0 THEN [deviceCommands |-> dc, body |-> OK, sent |-> <<>>]
     ELSE [deviceCommands |-> MapSet(dc, SN, marked),
           body |-> responseText,
           sent |-> <<pending[1].id>>]

\* GetRequest without the pending.forEach that marks the commands sent
GetRequest_NoMark(dc, query, t) ==
  LET SN == SNOrEmpty(query.SN)
      all == GetOr(dc, SN, <<>>)
      pending == SelectSeq(all, IsPending)
      lines == [i \in 1..Len(pending) |-> CommandLine(pending[i])]
      responseText == Join(lines, <<"\n">>) \o <<"\n">>
  IN IF SN = "" THEN [deviceCommands |-> dc, body |-> OK, sent |-> <<>>]
     ELSE IF Len(pending) = 0 THEN [deviceCommands |-> dc, body |-> OK, sent |-> <<>>]
     ELSE [deviceCommands |-> MapSet(dc, SN, all),
           body |-> responseText,
           sent |-> [i \in 1..Len(pending) |-> pending[i].id]]

NotDone(c) == c.status # "done"

\* GetRequest selecting every command that is not done, sent ones included
GetRequest_Resend(dc, query, t) ==
  LET SN == SNOrEmpty(query.SN)
      all == GetOr(dc, SN, <<>>)
      pending == SelectSeq(all, NotDone)
      lines == [i \in 1..Len(pending) |-> CommandLine(pending[i])]
      marked == [i \in 1..Len(all) |->
                   IF NotDone(all[i]) THEN MarkSent(all[i], t) ELSE all[i]]
      responseText == Join(lines, <<"\n">>) \o <<"\n">>
  IN IF SN = "" THEN [deviceCommands |-> dc, body |-> OK, sent |-> <<>>]
     ELSE IF Len(pending) = 0 THEN [deviceCommands |-> dc, body |-> OK, sent |-> <<>>]
     ELSE [deviceCommands |-> MapSet(dc, SN, marked),
           body |-> responseText,
           sent |-> [i \in 1..Len(pending) |-> pending[i].id]]

\* GetRequest storing the array back before the early return
GetRequest_Touch(dc, query, t) ==
  LET SN == SNOrEmpty(query.SN)
      all == GetOr(dc, SN, <<>>)
      pending == SelectSeq(all, IsPending)
      lines == [i \in 1..Len(pending) |-> CommandLine(pending[i])]
      marked == [i \in 1..Len(all) |->
                   IF IsPending(all[i]) THEN MarkSent(all[i], t) ELSE all[i]]
      responseText == Join(lines, <<"\n">>) \o <<"\n">>
  IN IF SN = "" THEN [deviceCommands |-> dc, body |-> OK, sent |-> <<>>]
     ELSE IF Len(pending) = 0
     THEN [deviceCommands |-> MapSet(dc, SN, all), body |-> OK, sent |-> <<>>]
     ELSE [deviceCommands |-> MapSet(dc, SN, marked),
           body |-> responseText,
           sent |-> [i \in 1..Len(pending) |-> pending[i].id]]

\* GET /iclock/getrequest.aspx
GetRequest(dc, query, t) ==
  LET SN == SNOrEmpty(query.SN)
      all == GetOr(dc, SN, <<>>)
      pending == SelectSeq(all, IsPending)
      lines == [i \in 1..Len(pending) |-> CommandLine(pending[i])]
      marked == [i \in 1..Len(all) |->
                   IF IsPending(all[i]) THEN MarkSent(all[i], t) ELSE all[i]]
      responseText == Join(lines, <<"\n">>) \o <<"\n">>
  IN IF SN = "" THEN [deviceCommands |-> dc, body |-> OK, sent |-> <<>>]
     ELSE IF Len(pending) = 0 THEN [deviceCommands |-> dc, body |-> OK, sent |-> <<>>]
     ELSE [deviceCommands |-> MapSet(dc, SN, marked),
           body |-> responseText,
           sent |-> [i \in 1..Len(pending) |-> pending[i].id]]

\* AckLine without arr.splice(idx, 1): the done command stays in the array
AckLine_KeepDone(acc, line, t) ==
  LET parts == Split(line, ":")
      id == Number(parts[2])
      status == Join(SubSeq(parts, 3, Len(parts)), <<":">>)
      idx == FindIndex(acc.arr, id)
  IN IF Len(parts) < 3 \/ parts[1] # <<"C">>
     THEN [acc EXCEPT !.malformed = @ + 1]
     ELSE IF idx = 0
     THEN [acc EXCEPT !.unknown = Append(@, id)]
     ELSE [acc EXCEPT !.done = Append(@, MarkDone(acc.arr[idx], t, status)),
                      !.arr = [@ EXCEPT ![idx] = MarkDone(@, t, status)]]

\* AckLine without the idx === -1 return: arr.splice(-1, 1) drops the last command
AckLine_SpliceMiss(acc, line, t) ==
  LET parts == Split(line, ":")
      id == Number(parts[2])
      status == Join(SubSeq(parts, 3, Len(parts)), <<":">>)
      idx == FindIndex(acc.arr, id)
  IN IF Len(parts) < 3 \/ parts[1] # <<"C">>
     THEN [acc EXCEPT !.malformed = @ + 1]
     ELSE IF idx = 0
     THEN [acc EXCEPT !.unknown = Append(@, id),
                      !.arr = SubSeq(@, 1, Len(@) - 1)]
     ELSE [acc EXCEPT !.done = Append(@, MarkDone(acc.arr[idx], t, status)),
                      !.arr = Splice([@ EXCEPT ![idx] = MarkDone(@, t, status)], idx)]

\* the body of lines.forEach in GET /iclock/devicecmd, on the running array
AckLine(acc, line, t) ==
  LET parts == Split(line, ":")
      id == Number(parts[2])
      status == Join(SubSeq(parts, 3, Len(parts)), <<":">>)
      idx == FindIndex(acc.arr, id)
  IN IF Len(parts) < 3 \/ parts[1] # <<"C">>
     THEN [acc EXCEPT !.malformed = @ + 1]
     ELSE IF idx = 0
     THEN [acc EXCEPT !.unknown = Append(@, id)]
     ELSE [acc EXCEPT !.done = Append(@, MarkDone(acc.arr[idx], t, status)),
                      !.arr = Splice([@ EXCEPT ![idx] = MarkDone(@, t, status)], idx)]

\* AckLines leaving the loop after the first line that removed a command
RECURSIVE AckLines_StopAfterHit(_, _, _)
AckLines_StopAfterHit(acc, lines, t) ==
  IF lines = <<>> THEN acc
  ELSE LET next == AckLine(acc, Head(lines), t)
       IN IF Len(next.done) > Len(acc.done) THEN next
          ELSE AckLines_StopAfterHit(next, Tail(lines), t)

\* AckLines giving up at the first unrecognized line
RECURSIVE AckLines_Abort(_, _, _)
AckLines_Abort(acc, lines, t) ==
  IF lines = <<>> THEN acc
  ELSE LET next == AckLine(acc, Head(lines), t)
       IN IF next.malformed > acc.malformed THEN next
          ELSE AckLines_Abort(next, Tail(lines), t)

RECURSIVE AckLines(_, _, _)
AckLines(acc, lines, t) ==
  IF lines = <<>> THEN acc
  ELSE AckLines(AckLine(acc, Head(lines), t), Tail(lines), t)

\* .map((l) => l.trim())
TrimAll(ls) == [i \in 1..Len(ls) |-> Trim(ls[i])]

\* .filter(Boolean)
NonEmpty(l) == l # <<>>

\* DeviceCmd storing the array back whatever its length
DeviceCmd_AlwaysSet(dc, query, t) ==
  LET SN == SNOrEmpty(query.SN)
      infoRaw == TextOrEmpty(query.info)
      lines == SelectSeq(TrimAll(SplitLines(infoRaw)), NonEmpty)
      arr == GetOr(dc, SN, <<>>)
      r == AckLines([arr |-> arr, done |-> <<>>, unknown |-> <<>>, malformed |-> 0],
                    lines, t)
  IN IF SN = "" \/ infoRaw = <<>>
     THEN [deviceCommands |-> dc, body |-> OK,
           done |-> <<>>, unknown |-> <<>>, malformed |-> 0]
     ELSE [deviceCommands |-> MapSet(dc, SN, r.arr),
           body |-> OK,
           done |-> r.done, unknown |-> r.unknown, malformed |-> r.malformed]

\* GET /iclock/devicecmd
DeviceCmd(dc, query, t) ==
  LET SN == SNOrEmpty(query.SN)
      infoRaw == TextOrEmpty(query.info)
      lines == SelectSeq(TrimAll(SplitLines(infoRaw)), NonEmpty)
      arr == GetOr(dc, SN, <<>>)
      r == AckLines([arr |-> arr, done |-> <<>>, unknown |-> <<>>, malformed |-> 0],
                    lines, t)
  IN IF SN = "" \/ infoRaw = <<>>
     THEN [deviceCommands |-> dc, body |-> OK,
           done |-> <<>>, unknown |-> <<>>, malformed |-> 0]
     ELSE [deviceCommands |-> IF Len(r.arr) = 0 THEN MapDelete(dc, SN)
                              ELSE MapSet(dc, SN, r.arr),
           body |-> OK,
           done |-> r.done, unknown |-> r.unknown, malformed |-> r.malformed]

\* req.query.SN || req.body.SN || ""
AspxSN(query, body) ==
  IF SNOrEmpty(query.SN) # "" THEN SNOrEmpty(query.SN) ELSE SNOrEmpty(body.SN)

\* DeviceCmdAspx recording the Return field as it came
DeviceCmdAspx_RawReturn(dc, query, body, t) ==
  LET SN == AspxSN(query, body)
      arr == GetOr(dc, SN, <<>>)
      cmdId == Number(body.ID.value)
      idx == FindIndex(arr, cmdId)
      deviceAck == TextOrEmpty(body.Return)
      rest == Splice([arr EXCEPT ![idx] = MarkDone(@, t, deviceAck)], idx)
  IN IF SN = "" \/ FalsyText(body.ID) \/ FalsyText(body.CMD)
     THEN [deviceCommands |-> dc, body |-> OK,
           done |-> <<>>, unknown |-> <<>>, malformed |-> 0]
     ELSE IF idx # 0
     THEN [deviceCommands |-> IF Len(rest) = 0 THEN MapDelete(dc, SN)
                              ELSE MapSet(dc, SN, rest),
           body |-> OK,
           done |-> <<MarkDone(arr[idx], t, deviceAck)>>, unknown |-> <<>>, malformed |-> 0]
     ELSE [deviceCommands |-> dc, body |-> OK,
           done |-> <<>>, unknown |-> <<cmdId>>, malformed |-> 0]

\* DeviceCmdAspx without the !CMD test
DeviceCmdAspx_NoCmdCheck(dc, query, body, t) ==
  LET SN == AspxSN(query, body)
      arr == GetOr(dc, SN, <<>>)
      cmdId == Number(body.ID.value)
      idx == FindIndex(arr, cmdId)
      deviceAck == IF body.Return.present /\ body.Return.value = <<"0">>
                   THEN OK ELSE ERR
      rest == Splice([arr EXCEPT ![idx] = MarkDone(@, t, deviceAck)], idx)
  IN IF SN = "" \/ FalsyText(body.ID)
     THEN [deviceCommands |-> dc, body |-> OK,
           done |-> <<>>, unknown |-> <<>>, malformed |-> 0]
     ELSE IF idx # 0
     THEN [deviceCommands |-> IF Len(rest) = 0 THEN MapDelete(dc, SN)
                              ELSE MapSet(dc, SN, rest),
           body |-> OK,
           done |-> <<MarkDone(arr[idx], t, deviceAck)>>, unknown |-> <<>>, malformed |-> 0]
     ELSE [deviceCommands |-> dc, body |-> OK,
           done |-> <<>>, unknown |-> <<cmdId>>, malformed |-> 0]

\* POST /iclock/devicecmd.aspx
DeviceCmdAspx(dc, query, body, t) ==
  LET SN == AspxSN(query, body)
      arr == GetOr(dc, SN, <<>>)
      cmdId == Number(body.ID.value)
      idx == FindIndex(arr, cmdId)
      deviceAck == IF body.Return.present /\ body.Return.value = <<"0">>
                   THEN OK ELSE ERR
      rest == Splice([arr EXCEPT ![idx] = MarkDone(@, t, deviceAck)], idx)
  IN IF SN = "" \/ FalsyText(body.ID) \/ FalsyText(body.CMD)
     THEN [deviceCommands |-> dc, body |-> OK,
           done |-> <<>>, unknown |-> <<>>, malformed |-> 0]
     ELSE IF idx # 0
     THEN [deviceCommands |-> IF Len(rest) = 0 THEN MapDelete(dc, SN)
                              ELSE MapSet(dc, SN, rest),
           body |-> OK,
           done |-> <<MarkDone(arr[idx], t, deviceAck)>>, unknown |-> <<>>, malformed |-> 0]
     ELSE [deviceCommands |-> dc, body |-> OK,
           done |-> <<>>, unknown |-> <<cmdId>>, malformed |-> 0]

\* PostQueueCommand checking SN only
PostQueueCommand_SNOnly(dc, ds, body, t) ==
  LET r == queueCommand(dc, ds, body.SN.value, TextOrEmpty(body.command), t)
  IN IF FalsySN(body.SN)
     THEN [status |-> 400, body |-> [error |-> "SN and command are required"],
           deviceCommands |-> dc, deviceSeq |-> ds]
     ELSE [status |-> 200, body |-> [success |-> TRUE, queued |-> r.cmd],
           deviceCommands |-> r.deviceCommands, deviceSeq |-> r.deviceSeq]

\* POST /queue-command
PostQueueCommand(dc, ds, body, t) ==
  LET r == queueCommand(dc, ds, body.SN.value, body.command.value, t)
  IN IF FalsySN(body.SN) \/ FalsyText(body.command)
     THEN [status |-> 400, body |-> [error |-> "SN and command are required"],
           deviceCommands |-> dc, deviceSeq |-> ds]
     ELSE [status |-> 200, body |-> [success |-> TRUE, queued |-> r.cmd],
           deviceCommands |-> r.deviceCommands, deviceSeq |-> r.deviceSeq]

\* GET /request-users and GET /request-attendance, which differ in the text
RequestFixed(dc, ds, query, text, t) ==
  LET r == queueCommand(dc, ds, query.SN.value, text, t)
  IN IF FalsySN(query.SN)
     THEN [status |-> 400, body |-> [error |-> "SN is required"],
           deviceCommands |-> dc, deviceSeq |-> ds]
     ELSE [status |-> 200, body |-> [success |-> TRUE, queued |-> r.cmd],
           deviceCommands |-> r.deviceCommands, deviceSeq |-> r.deviceSeq]

\* GET /request-users
RequestUsers(dc, ds, query, t) == RequestFixed(dc, ds, query, CHECK, t)

\* GET /request-attendance
RequestAttendance(dc, ds, query, t) == RequestFixed(dc, ds, query, DATA_QUERY_ATTLOG, t)

\* GET /commands/:sn
Commands(dc, params) ==
  [status |-> 200, body |-> [sn |-> params.sn, commands |-> GetOr(dc, params.sn, <<>>)]]

(* ------------------------------ inputs -------------------------------- *)
INFO == <<"I", "N", "F", "O">>

\* the SN field of a request: missing, empty, or a serial number
SNFields == {Absent, Val("")} \cup {Val(d) : d \in Devices}

\* the command field of POST /queue-command
CommandFields == {Absent, Val(<<>>), Val(CHECK)}

\* an ack line as a device writes it
AckText(i, res) == <<"C", ":">> \o ToString(i) \o <<":">> \o res

\* lines with fewer than 3 fields, or with a first field other than C
BadLines == { <<"X", ":", "1">>, <<"C", ":", "2">>, <<"X", ":", "2", ":", "O", "K">> }

OkLines == { AckText(i, OK) : i \in 1..MaxCmds }

ErrLines == { AckText(i, ERR) : i \in 1..MaxCmds }

\* the info payloads of GET /iclock/devicecmd: single lines, two lines (every
\* order, repeats, a malformed line first or last), and a few irregular ones
InfoTexts ==
  OkLines \cup ErrLines \cup BadLines
  \cup { l1 \o <<"\n">> \o l2 : l1 \in OkLines, l2 \in OkLines }
  \cup { l1 \o <<"\n">> \o l2 : l1 \in BadLines, l2 \in OkLines }
  \cup { l1 \o <<"\n">> \o l2 : l1 \in OkLines, l2 \in BadLines }
  \cup { AckText(1, OK) \o <<"\n">> \o AckText(1, ERR),
         AckText(2, OK \o <<":", "5">>),
         <<" ">> \o AckText(1, OK) \o <<"\r", "\n", "\r", "\n">> \o AckText(2, OK) \o <<" ", "\n">>,
         AckText(2, OK) \o <<"\n", "X", "\n">> \o AckText(1, ERR),
         <<"C", ":", " ", "1", " ", ":", "O", "K">>,
         <<"C", ":", ":", "O", "K">>,
         <<"C", ":", "X", ":", "O", "K">> }

\* the requests GET /iclock/devicecmd receives
DeviceCmdRequests ==
  { [SN |-> Val(d), info |-> Val(x)] : d \in Devices, x \in InfoTexts }
  \cup { [SN |-> s, info |-> Val(AckText(1, OK))] : s \in {Absent, Val("")} }
  \cup { [SN |-> Val("A1"), info |-> i] : i \in {Absent, Val(<<>>)} }

\* the Return field of POST /iclock/devicecmd.aspx
ReturnFields == {Absent, Val(<<"0">>), Val(<<"1">>)}

\* the requests POST /iclock/devicecmd.aspx receives: regular ones, the
\* serial number in the body or missing, and irregular ID and CMD fields
AspxRequests ==
  { [query |-> [SN |-> Val(d)],
     body |-> [SN |-> Absent, ID |-> Val(ToString(i)), Return |-> r, CMD |-> Val(CHECK)]] :
       d \in Devices, i \in 1..MaxCmds, r \in ReturnFields }
  \cup
  { [query |-> [SN |-> q],
     body |-> [SN |-> b, ID |-> Val(<<"1">>), Return |-> Val(<<"0">>), CMD |-> Val(INFO)]] :
       q \in {Absent, Val("")}, b \in {Absent, Val("A1")} }
  \cup
  { [query |-> [SN |-> Val("A1")],
     body |-> [SN |-> Val("B2"), ID |-> i, Return |-> Val(<<"0">>), CMD |-> Val(CHECK)]] :
       i \in {Absent, Val(<<>>), Val(<<"0">>), Val(<<"X">>), Val(<<"0", "1">>)} }
  \cup
  { [query |-> [SN |-> Val("A1")],
     body |-> [SN |-> Absent, ID |-> Val(<<"1">>), Return |-> Val(<<"0">>), CMD |-> c]] :
       c \in {Absent, Val(<<>>)} }

(* ------------------------------ actions ------------------------------- *)
\* the number of commands enqueued so far, over all devices
RECURSIVE SumLen(_, _)
SumLen(f, S) ==
  IF S = {} THEN 0
  ELSE LET d == CHOOSE x \in S : TRUE IN Len(f[d]) + SumLen(f, S \ {d})

Total == SumLen(assigned, DOMAIN assigned)

Init ==
  /\ deviceCommands = EmptyMap
  /\ deviceSeq = EmptyMap
  /\ now = 1
  /\ last = [op |-> "listen", SN |-> "", status |-> 0]
  /\ assigned = [d \in Devices |-> <<>>]
  /\ delivered = [d \in Devices |-> <<>>]
  /\ acked = [d \in Devices |-> {}]

\* time passes between two requests
Tick ==
  /\ now < MaxClock
  /\ now' = now + 1
  /\ UNCHANGED <<deviceCommands, deviceSeq, last, assigned, delivered, acked>>

\* the step of one of the three routes that enqueue, given its result r
EnqueueStep(op, SN, r) ==
  /\ r.status = 200 => Total < MaxCmds
  /\ deviceCommands' = r.deviceCommands
  /\ deviceSeq' = r.deviceSeq
  /\ assigned' = IF r.status = 200
                 THEN [assigned EXCEPT ![SN.value] = Append(@, r.body.queued.id)]
                 ELSE assigned
  /\ last' = [op |-> op, SN |-> SNOrEmpty(SN), status |-> r.status, body |-> r.body]
  /\ UNCHANGED <<now, delivered, acked>>

PostQueueCommandRoute ==
  \E SN \in SNFields, command \in CommandFields :
    \E r \in {PostQueueCommand(deviceCommands, deviceSeq, [SN |-> SN, command |-> command], now)} :
      EnqueueStep("POST /queue-command", SN, r)

RequestUsersRoute ==
  \E SN \in SNFields :
    \E r \in {RequestUsers(deviceCommands, deviceSeq, [SN |-> SN], now)} :
      EnqueueStep("GET /request-users", SN, r)

RequestAttendanceRoute ==
  \E SN \in SNFields :
    \E r \in {RequestAttendance(deviceCommands, deviceSeq, [SN |-> SN], now)} :
      EnqueueStep("GET /request-attendance", SN, r)

GetRequestRoute ==
  \E SN \in SNFields :
    \E r \in {GetRequest(deviceCommands, [SN |-> SN], now)}, sn \in {SNOrEmpty(SN)} :
       /\ deviceCommands' = r.deviceCommands
       /\ delivered' = IF r.sent = <<>> THEN delivered
                       ELSE [delivered EXCEPT ![sn] = @ \o r.sent]
       /\ last' = [op |-> "GET /iclock/getrequest.aspx", SN |-> sn, status |-> 200,
                   body |-> r.body, sent |-> r.sent]
       /\ UNCHANGED <<deviceSeq, now, assigned, acked>>

\* the console lines of an ack handler: the acknowledged commands with the
\* result text, the ids it found no command for, and the number of
\* unrecognized lines
AckLog(r) ==
  [acknowledged |-> [i \in 1..Len(r.done) |->
                       [id |-> r.done[i].id, deviceAck |-> r.done[i].deviceAck]],
   unknown |-> r.unknown,
   malformed |-> r.malformed]

\* the step of one of the two ack routes, given its result r
AckStep(op, sn, r) ==
  /\ deviceCommands' = r.deviceCommands
  /\ acked' = IF r.done = <<>> THEN acked
              ELSE [acked EXCEPT ![sn] = @ \cup {r.done[i].id : i \in 1..Len(r.done)}]
  /\ last' = [op |-> op, SN |-> sn, status |-> 200, body |-> r.body, log |-> AckLog(r)]
  /\ UNCHANGED <<deviceSeq, now, assigned, delivered>>

DeviceCmdRoute ==
  \E query \in DeviceCmdRequests :
    \E r \in {DeviceCmd(deviceCommands, query, now)} :
      AckStep("GET /iclock/devicecmd", SNOrEmpty(query.SN), r)

DeviceCmdAspxRoute ==
  \E req \in AspxRequests :
    \E r \in {DeviceCmdAspx(deviceCommands, req.query, req.body, now)} :
      AckStep("POST /iclock/devicecmd.aspx", AspxSN(req.query, req.body), r)

CommandsRoute ==
  \E sn \in Devices :
    \E r \in {Commands(deviceCommands, [sn |-> sn])} :
      /\ last' = [op |-> "GET /commands/:sn", SN |-> sn, status |-> r.status, body |-> r.body]
      /\ UNCHANGED <<deviceCommands, deviceSeq, now, assigned, delivered, acked>>

Next ==
  \/ Tick
  \/ PostQueueCommandRoute
  \/ RequestUsersRoute
  \/ RequestAttendanceRoute
  \/ GetRequestRoute
  \/ DeviceCmdRoute
  \/ DeviceCmdAspxRoute
  \/ CommandsRoute

Spec == Init /\ [][Next]_vars

(* ------------------------------ properties ---------------------------- *)
EnqueueOps == {"POST /queue-command", "GET /request-users", "GET /request-attendance"}

AckOps == {"GET /iclock/devicecmd", "POST /iclock/devicecmd.aspx"}

PollOp == "GET /iclock/getrequest.aspx"

Range(seq) == { seq[i] : i \in 1..Len(seq) }

Queue(d) == GetOr(deviceCommands, d, <<>>)

IdsOf(arr) == [i \in 1..Len(arr) |-> arr[i].id]

\* C1: for every device the ids handed out are 1, 2, 3, ... in enqueue order,
\* so each is greater than all earlier ones and none is handed out twice, also
\* after an ack emptied the queue and deleted the device's entry.
C1_IdsIncreasing ==
  \A d \in Devices : assigned[d] = [i \in 1..Len(assigned[d]) |-> i]

\* an enqueue returned id 2 into a queue that holds nothing else: id 1 was
\* acknowledged and the entry deleted before
C1_Witness ==
  /\ last.op \in EnqueueOps
  /\ last.status = 200
  /\ last.body.queued.id = 2
  /\ Queue(last.SN) = <<last.body.queued>>
  /\ acked[last.SN] = {1}

\* the text a poll must answer for the commands cmds
RECURSIVE ExpectedPollText(_)
ExpectedPollText(cmds) ==
  IF cmds = <<>> THEN <<>>
  ELSE <<"C", ":">> \o ToString(Head(cmds).id) \o <<":">> \o Head(cmds).command
       \o <<"\n">> \o ExpectedPollText(Tail(cmds))

\* C2: a poll for a device with N >= 1 pending commands answers exactly those,
\* one line C:<id>:<payload> each, in queue order, newline-terminated; it sets
\* all of them to sent and changes nothing else; an immediate second poll
\* answers OK and delivers nothing.
C2_PollDeliversPending ==
  \A d \in Devices :
    \A r \in {GetRequest(deviceCommands, [SN |-> Val(d)], now)} :
      \A r2 \in {GetRequest(r.deviceCommands, [SN |-> Val(d)], now)} :
        LET all == Queue(d)
            pending == SelectSeq(all, IsPending)
            after == GetOr(r.deviceCommands, d, <<>>)
        IN Len(pending) >= 1 =>
             /\ r.body = ExpectedPollText(pending)
             /\ r.sent = IdsOf(pending)
             /\ DOMAIN r.deviceCommands = DOMAIN deviceCommands
             /\ \A e \in DOMAIN deviceCommands \ {d} : r.deviceCommands[e] = deviceCommands[e]
             /\ Len(after) = Len(all)
             /\ \A i \in 1..Len(all) :
                  IF IsPending(all[i])
                  THEN after[i] = [id |-> all[i].id, command |-> all[i].command,
                                   status |-> "sent", queuedAt |-> all[i].queuedAt,
                                   sentAt |-> now]
                  ELSE after[i] = all[i]
             /\ r2.body = OK
             /\ r2.sent = <<>>
             /\ r2.deviceCommands = r.deviceCommands

\* the last request was a poll that delivered both commands of a device
C2_Witness ==
  /\ last.op = PollOp
  /\ last.SN \in Devices
  /\ Len(Queue(last.SN)) = 2
  /\ last.body = ExpectedPollText(Queue(last.SN))
  /\ \A i \in 1..2 : Queue(last.SN)[i].status = "sent"

NoRepeat(seq) == \A i, j \in 1..Len(seq) : i # j => seq[i] # seq[j]

\* C3: no (device, id) is in more than one poll response; a queued command is
\* pending exactly as long as it has not been delivered; and a sent command
\* stays sent, unchanged, until it leaves the queue.
C3_AtMostOnce ==
  /\ [](\A d \in Devices :
          /\ NoRepeat(delivered[d])
          /\ \A i \in 1..Len(Queue(d)) :
               (Queue(d)[i].status = "pending") <=> (Queue(d)[i].id \notin Range(delivered[d])))
  /\ [][\A d \in Devices : \A i \in 1..Len(Queue(d)) :
          Queue(d)[i].status = "sent" =>
            \A j \in 1..Len(GetOr(deviceCommands', d, <<>>)) :
              deviceCommands'[d][j].id = Queue(d)[i].id => deviceCommands'[d][j] = Queue(d)[i]]_vars

\* a later poll of a device whose only command was delivered earlier and never
\* acknowledged answered OK
C3_Witness ==
  /\ last.op = PollOp
  /\ last.SN \in Devices
  /\ last.body = OK
  /\ Len(Queue(last.SN)) = 1
  /\ Queue(last.SN)[1].status = "sent"
  /\ Queue(last.SN)[1].sentAt < now
  /\ delivered[last.SN] = <<Queue(last.SN)[1].id>>

\* C4: between two requests no queue holds a command with status done, and
\* the inspect route never shows one.
C4_NoDoneInQueue ==
  /\ \A d \in DOMAIN deviceCommands : \A i \in 1..Len(deviceCommands[d]) :
       deviceCommands[d][i].status \in {"pending", "sent"}
  /\ last.op = "GET /commands/:sn" =>
       \A i \in 1..Len(last.body.commands) :
         last.body.commands[i].status \in {"pending", "sent"}

\* inspect of a device after one of its two commands was acknowledged
C4_Witness ==
  /\ last.op = "GET /commands/:sn"
  /\ acked[last.SN] # {}
  /\ Len(last.body.commands) = 1

\* an ack of the single id i in the batch encoding and in the structured one
BatchAckOf(d, i, res) == [SN |-> Val(d), info |-> Val(AckText(i, res))]

AspxAckOf(i, ret, cmd) == [SN |-> Absent, ID |-> Val(ToString(i)), Return |-> ret, CMD |-> Val(cmd)]

HasId(arr, i) == \E k \in 1..Len(arr) : arr[k].id = i

WithoutIds(arr, ids) == SelectSeq(arr, LAMBDA c : c.id \notin ids)

\* first and second result of the same ack, for a command present or not
AckTwice(r1, r2, d, i) ==
  /\ r1.body = OK
  /\ r2.body = OK
  /\ r2.deviceCommands = r1.deviceCommands
  /\ r2.done = <<>>
  /\ IF HasId(Queue(d), i)
     THEN /\ IdsOf(r1.done) = <<i>>
          /\ GetOr(r1.deviceCommands, d, <<>>) = WithoutIds(Queue(d), {i})
     ELSE /\ r1.done = <<>>
          /\ r1.deviceCommands = deviceCommands

\* C5: in both encodings, the first ack of an id removes the command and the
\* same ack repeated changes nothing; an ack of an id that is not in the queue
\* changes nothing; all of them answer OK; no ack touches the id counters.
C5_AckIdempotent ==
  /\ [](\A d \in Devices, i \in 1..(MaxCmds + 1) :
          /\ \A res \in {OK, ERR} :
               \A r1 \in {DeviceCmd(deviceCommands, BatchAckOf(d, i, res), now)} :
                 \A r2 \in {DeviceCmd(r1.deviceCommands, BatchAckOf(d, i, res), now)} :
                   AckTwice(r1, r2, d, i)
          /\ \A ret \in ReturnFields :
               \A r1 \in {DeviceCmdAspx(deviceCommands, [SN |-> Val(d)],
                                        AspxAckOf(i, ret, CHECK), now)} :
                 \A r2 \in {DeviceCmdAspx(r1.deviceCommands, [SN |-> Val(d)],
                                          AspxAckOf(i, ret, CHECK), now)} :
                   AckTwice(r1, r2, d, i))
  /\ [][last'.op \in AckOps /\ last' # last =>
          /\ deviceSeq' = deviceSeq
          /\ last'.body = OK
          /\ (last'.log.acknowledged = <<>> => deviceCommands' = deviceCommands)]_vars

\* the last request acknowledged, without effect, an id that an earlier ack
\* had already removed, while the device still has a command queued
C5_Witness ==
  /\ last.op \in AckOps
  /\ last.SN \in Devices
  /\ last.log.acknowledged = <<>>
  /\ \E k \in 1..Len(last.log.unknown) : last.log.unknown[k] \in acked[last.SN]
  /\ Queue(last.SN) # <<>>

\* C6 as claimed: every command enqueued and not yet in a poll response is in
\* its queue with status pending.
C6_Original ==
  \A d \in Devices : \A i \in Range(assigned[d]) :
    i \notin Range(delivered[d]) =>
      \E k \in 1..Len(Queue(d)) : Queue(d)[k].id = i /\ Queue(d)[k].status = "pending"

\* C6 amended: every command enqueued, not yet in a poll response and not
\* acknowledged is in its queue with status pending.
C6_PendingUntilPolledOrAcked ==
  \A d \in Devices : \A i \in Range(assigned[d]) :
    (i \notin Range(delivered[d]) /\ i \notin acked[d]) =>
      \E k \in 1..Len(Queue(d)) : Queue(d)[k].id = i /\ Queue(d)[k].status = "pending"

\* a command enqueued earlier is still pending after the other command of
\* its device was delivered and then acknowledged
C6_Witness ==
  /\ last.op \in AckOps
  /\ last.SN \in Devices
  /\ last.log.acknowledged # <<>>
  /\ Len(Queue(last.SN)) = 1
  /\ Queue(last.SN)[1].status = "pending"
  /\ Queue(last.SN)[1].queuedAt < now
  /\ delivered[last.SN] # <<>>

\* a batch as a sequence of line descriptions: a well-formed line naming an
\* id, or one of the malformed lines
Good(i) == [id |-> i, text |-> AckText(i, OK)]

Bad(b) == [id |-> 0, text |-> b]

GoodSpecs == { Good(i) : i \in 1..MaxCmds }

BadSpecs == { Bad(b) : b \in BadLines }

\* batches that mix malformed and well-formed lines, the malformed one first,
\* last, or between two well-formed ones
MixedBatches ==
  { <<b, g>> : b \in BadSpecs, g \in GoodSpecs }
  \cup { <<g, b>> : b \in BadSpecs, g \in GoodSpecs }
  \cup { <<g, b, h>> : b \in BadSpecs, g \in GoodSpecs, h \in GoodSpecs }
  \cup { <<b, Good(1), Good(2)>> : b \in BadSpecs }
  \cup { <<Good(2), Good(1), b>> : b \in BadSpecs }

NumFields(l) == 1 + Cardinality({ k \in 1..Len(l) : l[k] = ":" })

StartsWithMarker(l) == Len(l) >= 2 /\ l[1] = "C" /\ l[2] = ":"

InfoOf(batch) == Join([k \in 1..Len(batch) |-> batch[k].text], <<"\n">>)

\* C7: in a batch ack, a line with fewer than 3 fields or a first field other
\* than C is skipped, wherever it stands: the commands named by the other
\* lines are removed, all other commands stay as they are, the answer is OK.
C7_MalformedLinesSkipped ==
  /\ \A b \in BadLines : NumFields(b) < 3 \/ ~StartsWithMarker(b)
  /\ \A g \in GoodSpecs : NumFields(g.text) >= 3 /\ StartsWithMarker(g.text)
  /\ \A d \in Devices, batch \in MixedBatches :
       \A r \in {DeviceCmd(deviceCommands, [SN |-> Val(d), info |-> Val(InfoOf(batch))], now)} :
         LET named == { batch[k].id : k \in { j \in 1..Len(batch) : batch[j] \in GoodSpecs } }
         IN /\ r.body = OK
            /\ GetOr(r.deviceCommands, d, <<>>) = WithoutIds(Queue(d), named)
            /\ \A e \in Devices \ {d} : GetOr(r.deviceCommands, e, <<>>) = Queue(e)
            /\ Range(IdsOf(r.done)) = named \cap Range(IdsOf(Queue(d)))
            /\ r.malformed = Cardinality({ j \in 1..Len(batch) : batch[j] \in BadSpecs })

\* the last batch ack skipped a malformed line and removed a command, and
\* another command of the device stays queued
C7_Witness ==
  /\ last.op = "GET /iclock/devicecmd"
  /\ last.log.malformed >= 1
  /\ last.log.acknowledged # <<>>
  /\ Queue(last.SN) # <<>>

\* the parts of an ack's result the two encodings must agree on
SameAck(a, b) ==
  /\ a.deviceCommands = b.deviceCommands
  /\ a.body = b.body
  /\ a.done = b.done
  /\ a.unknown = b.unknown

\* C8: C:<id>:OK in a batch ack and ID=<id>, Return="0" with any non-empty
\* command text in a structured ack give the same queues, acknowledged
\* command (deviceAck OK) and answer; so do C:<id>:ERR and any other Return,
\* an absent one included.
C8_EncodingsAgree ==
  \A d \in Devices, i \in 0..(MaxCmds + 1), cmd \in {CHECK, INFO} :
    /\ \A a \in {DeviceCmd(deviceCommands, BatchAckOf(d, i, OK), now)} :
         \A b \in {DeviceCmdAspx(deviceCommands, [SN |-> Val(d)],
                                 AspxAckOf(i, Val(<<"0">>), cmd), now)} :
           /\ SameAck(a, b)
           /\ \A k \in 1..Len(b.done) : b.done[k].deviceAck = OK
           /\ HasId(Queue(d), i) => Len(b.done) = 1
    /\ \A ret \in {Absent, Val(<<>>), Val(<<"1">>), Val(<<"0", "0">>), Val(<<" ", "0">>)} :
         \A a \in {DeviceCmd(deviceCommands, BatchAckOf(d, i, ERR), now)} :
           \A b \in {DeviceCmdAspx(deviceCommands, [SN |-> Val(d)],
                                   AspxAckOf(i, ret, cmd), now)} :
             /\ SameAck(a, b)
             /\ \A k \in 1..Len(b.done) : b.done[k].deviceAck = ERR
             /\ HasId(Queue(d), i) => Len(b.done) = 1

\* the last request was a structured ack with Return="0" that found its
\* command and recorded OK
C8_Witness ==
  /\ last.op = "POST /iclock/devicecmd.aspx"
  /\ Len(last.log.acknowledged) = 1
  /\ last.log.acknowledged[1].deviceAck = OK

\* C9: POST /queue-command with SN or command missing or empty answers 400 and
\* changes no queue and no counter; with both present it appends one pending
\* command with the next id at the end of that device's queue, changes nothing
\* else, and answers with that command.
C9_EnqueueValidation ==
  \A SN \in SNFields, command \in CommandFields \cup {Val(INFO)} :
    \A r \in {PostQueueCommand(deviceCommands, deviceSeq, [SN |-> SN, command |-> command], now)} :
      IF (~SN.present) \/ SN.value = "" \/ (~command.present) \/ command.value = <<>>
      THEN /\ r.status = 400
           /\ "error" \in DOMAIN r.body
           /\ r.deviceCommands = deviceCommands
           /\ r.deviceSeq = deviceSeq
      ELSE LET cmd == [id |-> GetOr(deviceSeq, SN.value, 0) + 1, command |-> command.value,
                       status |-> "pending", queuedAt |-> now]
           IN /\ r.status = 200
              /\ r.body = [success |-> TRUE, queued |-> cmd]
              /\ ~HasId(Queue(SN.value), cmd.id)
              /\ DOMAIN r.deviceCommands = DOMAIN deviceCommands \cup {SN.value}
              /\ r.deviceCommands[SN.value] = Append(Queue(SN.value), cmd)
              /\ \A e \in DOMAIN deviceCommands \ {SN.value} :
                   r.deviceCommands[e] = deviceCommands[e]
              /\ DOMAIN r.deviceSeq = DOMAIN deviceSeq \cup {SN.value}
              /\ r.deviceSeq[SN.value] = cmd.id
              /\ \A e \in DOMAIN deviceSeq \ {SN.value} : r.deviceSeq[e] = deviceSeq[e]

\* the last request was a rejected POST /queue-command, with commands queued
\* and ids consumed before it
C9_Witness ==
  /\ last.op = "POST /queue-command"
  /\ last.status = 400
  /\ DOMAIN deviceCommands # {}
  /\ \E d \in DOMAIN deviceSeq : deviceSeq[d] = 2

\* C10: a poll without SN, for an SN that has no queue, or for a device whose
\* commands are all sent answers OK and leaves the queue map as it is: no
\* entry created, no status or timestamp changed.
C10_EmptyPollChangesNothing ==
  \A SN \in SNFields \cup {Val("Z9")} :
    \A r \in {GetRequest(deviceCommands, [SN |-> SN], now)} :
      LET sn == IF SN.present THEN SN.value ELSE ""
      IN (sn = "" \/ sn \notin DOMAIN deviceCommands
          \/ \A k \in 1..Len(Queue(sn)) : Queue(sn)[k].status # "pending") =>
           /\ r.body = OK
           /\ r.sent = <<>>
           /\ r.deviceCommands = deviceCommands

\* the last request was a poll, at a later instant, of a device all of whose
\* commands had been sent earlier; it answered OK
C10_Witness ==
  /\ last.op = PollOp
  /\ last.body = OK
  /\ last.SN \in DOMAIN deviceCommands
  /\ Len(Queue(last.SN)) = 2
  /\ \A k \in 1..2 : Queue(last.SN)[k].status = "sent" /\ Queue(last.SN)[k].sentAt < now

\* batch acks with the serial number or the info payload missing or empty
MissingFieldBatch ==
  { [SN |-> s, info |-> Val(AckText(i, OK))] : s \in {Absent, Val("")}, i \in 1..MaxCmds }
  \cup { [SN |-> Val(d), info |-> f] : d \in Devices, f \in {Absent, Val(<<>>)} }

\* structured acks with the serial number, the ID or the CMD missing or empty
MissingFieldAspx ==
  { req \in { [query |-> [SN |-> q],
               body |-> [SN |-> b, ID |-> id, Return |-> Val(<<"0">>), CMD |-> c]] :
                 q \in {Absent, Val("A1")}, b \in {Absent, Val(""), Val("A1")},
                 id \in {Absent, Val(<<>>), Val(<<"1">>)},
                 c \in {Absent, Val(<<>>), Val(CHECK)} } :
      \/ AspxSN(req.query, req.body) = ""
      \/ FalsyText(req.body.ID)
      \/ FalsyText(req.body.CMD) }

\* C11: an ack with a required field missing (batch: SN or info; structured:
\* SN, ID or CMD) answers OK and leaves every queue as it is; every ack the
\* routes receive answers OK with status 200; and an id counter changes only
\* in a step of a successful enqueue, never in an ack.
C11_MissingFieldsDegradeToOK ==
  /\ [](/\ \A q \in MissingFieldBatch :
            \A r \in {DeviceCmd(deviceCommands, q, now)} :
              r.body = OK /\ r.deviceCommands = deviceCommands /\ r.done = <<>>
        /\ \A req \in MissingFieldAspx :
            \A r \in {DeviceCmdAspx(deviceCommands, req.query, req.body, now)} :
              r.body = OK /\ r.deviceCommands = deviceCommands /\ r.done = <<>>
        /\ last.op \in AckOps => last.status = 200 /\ last.body = OK)
  /\ [][deviceSeq' # deviceSeq => last'.op \in EnqueueOps /\ last'.status = 200]_vars

\* the last request was an ack without a serial number, received while
\* commands were queued and ids had been handed out
C11_Witness ==
  /\ last.op \in AckOps
  /\ last.SN = ""
  /\ last.body = OK
  /\ DOMAIN deviceCommands # {}
  /\ DOMAIN deviceSeq # {}

\* the ids of the commands of arr that were delivered and wait for their ack
SentIds(arr) == { arr[k].id : k \in { j \in 1..Len(arr) : arr[j].status = "sent" } }

\* what inspect shows for device d after an ack with result r, for the acked id i
InspectAfterAck(r, d, i) ==
  \A insp \in {Commands(r.deviceCommands, [sn |-> d])} :
    LET before == Queue(d)
        shown == insp.body.commands
    IN /\ r.body = OK
       /\ insp.status = 200
       /\ insp.body.sn = d
       /\ ~HasId(shown, i)
       /\ Len(shown) = Len(before) - 1
       /\ shown = WithoutIds(before, {i})
       /\ Len(before) = 1 => shown = <<>> /\ d \notin DOMAIN r.deviceCommands
       /\ \A e \in Devices \ {d} : GetOr(r.deviceCommands, e, <<>>) = Queue(e)

\* C12: an ack, in either encoding and with any result, of a sent command i
\* of device sn removes exactly that command: inspect(sn) then shows the other
\* commands of sn, each as it was (id, payload, status, timestamps) and in the
\* same order, and the empty list if i was the only one; the queues of the
\* other devices are as before.
C12_AckRemovesExactlyOne ==
  \A d \in Devices : \A i \in SentIds(Queue(d)) :
    /\ \A res \in {OK, ERR} :
         \A r \in {DeviceCmd(deviceCommands, BatchAckOf(d, i, res), now)} :
           InspectAfterAck(r, d, i)
    /\ \A ret \in ReturnFields :
         \A r \in {DeviceCmdAspx(deviceCommands, [SN |-> Val(d)], AspxAckOf(i, ret, CHECK), now)} :
           InspectAfterAck(r, d, i)

\* inspect showed the empty list for a device whose commands were all
\* delivered and then acknowledged
C12_Witness ==
  /\ last.op = "GET /commands/:sn"
  /\ last.body.commands = <<>>
  /\ acked[last.SN] # {}
  /\ acked[last.SN] = Range(delivered[last.SN])
  /\ acked[last.SN] = Range(assigned[last.SN])

\* the ids of the commands of arr that no poll has delivered yet
PendingIds(arr) == { arr[k].id : k \in { j \in 1..Len(arr) : arr[j].status = "pending" } }

\* the queue map with command i of device d as a poll at instant t leaves it
WithSent(dc, d, i, t) ==
  [dc EXCEPT ![d] = [k \in 1..Len(@) |-> IF @[k].id = i THEN MarkSent(@[k], t) ELSE @[k]]]

\* an ack r of the pending command i of device d, against the same ack rs of
\* that command once sent
AckOfPending(r, rs, d, i) ==
  /\ r.body = OK
  /\ IdsOf(r.done) = <<i>>
  /\ r.done[1].status = "done"
  /\ r.unknown = <<>>
  /\ GetOr(r.deviceCommands, d, <<>>) = WithoutIds(Queue(d), {i})
  /\ r.deviceCommands = rs.deviceCommands
  /\ rs.body = r.body
  /\ IdsOf(rs.done) = IdsOf(r.done)
  /\ \A p \in {GetRequest(r.deviceCommands, [SN |-> Val(d)], now)} :
       /\ i \notin Range(p.sent)
       /\ Range(p.sent) = PendingIds(Queue(d)) \ {i}

\* C13: an ack, in either encoding, of an id whose command is still pending
\* answers OK and removes the command, leaving the same queues as the ack of
\* that command after a poll had sent it; the poll that follows does not
\* deliver it, and no later step delivers an id that was acknowledged before
\* any poll delivered it, or puts an acknowledged id back into the queue.
C13_AckMatchesPending ==
  /\ [](\A d \in Devices :
          /\ \A i \in PendingIds(Queue(d)) :
               /\ \A res \in {OK, ERR} :
                    \A r \in {DeviceCmd(deviceCommands, BatchAckOf(d, i, res), now)},
                       rs \in {DeviceCmd(WithSent(deviceCommands, d, i, now),
                                         BatchAckOf(d, i, res), now)} :
                      AckOfPending(r, rs, d, i)
               /\ \A ret \in ReturnFields :
                    \A r \in {DeviceCmdAspx(deviceCommands, [SN |-> Val(d)],
                                            AspxAckOf(i, ret, CHECK), now)},
                       rs \in {DeviceCmdAspx(WithSent(deviceCommands, d, i, now), [SN |-> Val(d)],
                                             AspxAckOf(i, ret, CHECK), now)} :
                      AckOfPending(r, rs, d, i)
          /\ \A i \in acked[d] : ~HasId(Queue(d), i))
  /\ [][\A d \in Devices : \A i \in acked[d] :
          i \notin Range(delivered[d]) => i \notin Range(delivered'[d])]_vars

\* a poll delivered a command of a device after another command of that
\* device had been acknowledged without ever being delivered
C13_Witness ==
  /\ last.op = PollOp
  /\ last.SN \in Devices
  /\ last.body # OK
  /\ \E i \in acked[last.SN] : i \notin Range(delivered[last.SN])

\* the part of a map that belongs to device d
Restrict(map, d) == [x \in (DOMAIN map) \cap {d} |-> map[x]]

\* a request addressed to device d, handled on the whole store (full) and on
\* the store holding d's entries only (solo): d's queue, d's counter and the
\* response are the same, and the entries of the other devices are untouched
Isolated(d, full, solo) ==
  /\ Restrict(full.dc, d) = solo.dc
  /\ Restrict(full.ds, d) = solo.ds
  /\ full.out = solo.out
  /\ \A e \in Devices \ {d} :
       /\ Restrict(full.dc, e) = Restrict(deviceCommands, e)
       /\ Restrict(full.ds, e) = Restrict(deviceSeq, e)

EnqueueResult(r) == [dc |-> r.deviceCommands, ds |-> r.deviceSeq, out |-> r.body]

\* polls and acks do not take the counters
QueueResult(r, ds) == [dc |-> r.deviceCommands, ds |-> ds, out |-> r.body]

\* the structured acks addressed to device d, by query or by body
AspxRequestsFor(d) ==
  { [query |-> [SN |-> q],
     body |-> [SN |-> b, ID |-> Val(id), Return |-> ret, CMD |-> Val(CHECK)]] :
       q \in {Absent, Val(d)}, b \in {Val(d)},
       id \in {ToString(i) : i \in 1..(MaxCmds + 1)} \cup {<<"X">>},
       ret \in {Absent, Val(<<"0">>)} }

\* info payloads of batch acks: one line, two lines, a malformed line first
IsolationTexts ==
  OkLines \cup ErrLines
  \cup { l1 \o <<"\n">> \o l2 : l1 \in OkLines, l2 \in OkLines }
  \cup { <<"X", ":", "1", "\n">> \o AckText(2, OK) }

\* a request as a step on the pair of maps: an enqueue, a poll, or an ack of
\* one id in one of the two encodings
Step(op, st, t) ==
  CASE op.kind = "users" ->
         LET r == RequestUsers(st.dc, st.ds, [SN |-> Val(op.sn)], t)
         IN [dc |-> r.deviceCommands, ds |-> r.deviceSeq]
    [] op.kind = "attendance" ->
         LET r == RequestAttendance(st.dc, st.ds, [SN |-> Val(op.sn)], t)
         IN [dc |-> r.deviceCommands, ds |-> r.deviceSeq]
    [] op.kind = "poll" ->
         [dc |-> GetRequest(st.dc, [SN |-> Val(op.sn)], t).deviceCommands, ds |-> st.ds]
    [] op.kind = "batch" ->
         [dc |-> DeviceCmd(st.dc, BatchAckOf(op.sn, op.id, OK), t).deviceCommands, ds |-> st.ds]
    [] op.kind = "aspx" ->
         [dc |-> DeviceCmdAspx(st.dc, [SN |-> Val(op.sn)],
                               AspxAckOf(op.id, Val(<<"1">>), CHECK), t).deviceCommands,
          ds |-> st.ds]

StepsOn(d) ==
  { [kind |-> k, sn |-> d, id |-> 0] : k \in {"users", "attendance", "poll"} }
  \cup { [kind |-> k, sn |-> d, id |-> i] : k \in {"batch", "aspx"}, i \in 1..MaxCmds }

\* C14: a request addressed to device A (enqueue, poll, batch ack, structured
\* ack) has on A's queue and counter the effect, and gives the response, it
\* has on a store that holds A's entries alone, and leaves queue and counter
\* of every other device as they are; two requests addressed to different
\* devices give the same store in either order; and in every step, a queue or
\* a counter that changes belongs to the device the request is addressed to.
C14_DeviceIsolation ==
  /\ [](/\ \A d \in Devices :
            LET dcd == Restrict(deviceCommands, d)
                dsd == Restrict(deviceSeq, d)
            IN /\ \A c \in {CHECK, INFO} :
                    Isolated(d,
                      EnqueueResult(PostQueueCommand(deviceCommands, deviceSeq,
                                                     [SN |-> Val(d), command |-> Val(c)], now)),
                      EnqueueResult(PostQueueCommand(dcd, dsd,
                                                     [SN |-> Val(d), command |-> Val(c)], now)))
               /\ Isolated(d,
                    EnqueueResult(RequestUsers(deviceCommands, deviceSeq, [SN |-> Val(d)], now)),
                    EnqueueResult(RequestUsers(dcd, dsd, [SN |-> Val(d)], now)))
               /\ Isolated(d,
                    EnqueueResult(RequestAttendance(deviceCommands, deviceSeq, [SN |-> Val(d)], now)),
                    EnqueueResult(RequestAttendance(dcd, dsd, [SN |-> Val(d)], now)))
               /\ Isolated(d,
                    QueueResult(GetRequest(deviceCommands, [SN |-> Val(d)], now), deviceSeq),
                    QueueResult(GetRequest(dcd, [SN |-> Val(d)], now), dsd))
               /\ \A x \in IsolationTexts :
                    Isolated(d,
                      QueueResult(DeviceCmd(deviceCommands, [SN |-> Val(d), info |-> Val(x)], now),
                                  deviceSeq),
                      QueueResult(DeviceCmd(dcd, [SN |-> Val(d), info |-> Val(x)], now), dsd))
               /\ \A req \in AspxRequestsFor(d) :
                    Isolated(d,
                      QueueResult(DeviceCmdAspx(deviceCommands, req.query, req.body, now), deviceSeq),
                      QueueResult(DeviceCmdAspx(dcd, req.query, req.body, now), dsd))
        /\ \A st \in {[dc |-> deviceCommands, ds |-> deviceSeq]} :
            \A a \in StepsOn("A1") : \A sa \in {Step(a, st, now)} :
              \A b \in StepsOn("B2") : \A sb \in {Step(b, st, now)} :
                Step(b, sa, now) = Step(a, sb, now))
  /\ [][\A d \in Devices :
          (Restrict(deviceCommands', d) # Restrict(deviceCommands, d)
           \/ Restrict(deviceSeq', d) # Restrict(deviceSeq, d)) => last'.SN = d]_vars

\* an ack emptied the queue of one device, whose entry is gone, while the
\* other device holds its one command, delivered earlier and not acknowledged
C14_Witness ==
  /\ last.op \in AckOps
  /\ last.log.acknowledged # <<>>
  /\ last.SN \notin DOMAIN deviceCommands
  /\ \E e \in Devices \ {last.SN} :
       /\ Len(Queue(e)) = 1
       /\ Queue(e)[1].status = "sent"
       /\ deviceSeq[e] = 1
       /\ delivered[e] = <<1>>

\* the four acks of one id: either encoding, either result
AckForms == { [enc |-> e, res |-> r] : e \in {"batch", "aspx"}, r \in {OK, ERR} }

\* the ack form f of id i of device d, handled on the queue map dc
AckBy(f, dc, d, i, t) ==
  IF f.enc = "batch"
  THEN DeviceCmd(dc, BatchAckOf(d, i, f.res), t)
  ELSE DeviceCmdAspx(dc, [SN |-> Val(d)],
                     AspxAckOf(i, IF f.res = OK THEN Val(<<"0">>) ELSE Val(<<"1">>), CHECK), t)

\* the result r of an ack that found no command for id i in the queue map dc
NoMatch(r, dc, i) ==
  /\ r.body = OK
  /\ r.done = <<>>
  /\ r.unknown = <<i>>
  /\ r.deviceCommands = dc

\* C15: of two acks of the same (device, id) with different results, in
\* either encoding and either order, the first one processed matches the
\* command and sets done and deviceAck, with its own result; the second finds
\* no match and changes nothing, also when both are lines of one batch.  In
\* every reachable state an id acknowledged before is not in the queue and
\* every ack of it finds no match, so no request in between changes this; and
\* no ack acknowledges an id twice.
C15_AckedOnce ==
  /\ \A d \in Devices : \A i \in Range(IdsOf(Queue(d))) :
       /\ \A f \in AckForms, g \in AckForms :
            f.res # g.res =>
              \A r1 \in {AckBy(f, deviceCommands, d, i, now)} :
                \A r2 \in {AckBy(g, r1.deviceCommands, d, i, now)} :
                  /\ Len(r1.done) = 1
                  /\ r1.done[1].id = i
                  /\ r1.done[1].status = "done"
                  /\ r1.done[1].doneAt = now
                  /\ r1.done[1].deviceAck = f.res
                  /\ ~HasId(GetOr(r1.deviceCommands, d, <<>>), i)
                  /\ NoMatch(r2, r1.deviceCommands, i)
       /\ \A x \in {OK, ERR}, y \in {OK, ERR} :
            x # y =>
              \A r \in {DeviceCmd(deviceCommands,
                                  [SN |-> Val(d),
                                   info |-> Val(AckText(i, x) \o <<"\n">> \o AckText(i, y))],
                                  now)} :
                /\ Len(r.done) = 1
                /\ r.done[1].id = i
                /\ r.done[1].deviceAck = x
                /\ r.unknown = <<i>>
                /\ GetOr(r.deviceCommands, d, <<>>) = WithoutIds(Queue(d), {i})
  /\ \A d \in Devices : \A i \in acked[d] :
       /\ ~HasId(Queue(d), i)
       /\ \A f \in AckForms : NoMatch(AckBy(f, deviceCommands, d, i, now), deviceCommands, i)
  /\ last.op \in AckOps =>
       /\ NoRepeat(IdsOf(last.log.acknowledged))
       /\ \A k \in 1..Len(last.log.acknowledged) :
            /\ last.log.acknowledged[k].id \in acked[last.SN]
            /\ ~HasId(Queue(last.SN), last.log.acknowledged[k].id)

\* one batch carried C:1:OK and then C:1:ERR: the first line acknowledged
\* command 1 with OK, the second found no command
C15_Witness ==
  /\ last.op = "GET /iclock/devicecmd"
  /\ last.log.acknowledged = <<[id |-> 1, deviceAck |-> OK]>>
  /\ last.log.unknown = <<1>>
  /\ last.log.malformed = 0

\* C16: in every reachable state the ids in each device's queue increase
\* strictly from front to back, so none occurs twice, and each id is at least
\* 1 and at most the device's counter, which exists whenever the queue does.
C16_QueueIdsOrdered ==
  \A d \in DOMAIN deviceCommands :
    /\ d \in DOMAIN deviceSeq
    /\ \A j, k \in 1..Len(deviceCommands[d]) :
         j < k => deviceCommands[d][j].id < deviceCommands[d][k].id
    /\ \A k \in 1..Len(deviceCommands[d]) :
         /\ deviceCommands[d][k].id >= 1
         /\ deviceCommands[d][k].id <= deviceSeq[d]

\* a queue holds commands 1 and 2, the first delivered before the second
\* was enqueued, and the counter stands at 2
C16_Witness ==
  \E d \in DOMAIN deviceCommands :
    /\ IdsOf(deviceCommands[d]) = <<1, 2>>
    /\ deviceCommands[d][1].status = "sent"
    /\ deviceCommands[d][2].status = "pending"
    /\ deviceCommands[d][1].sentAt < deviceCommands[d][2].queuedAt
    /\ deviceSeq[d] = 2

\* the ids the request handled in the step acknowledged for device d
AckedInStep(lst, d) ==
  IF lst.op \in AckOps /\ lst.SN = d
  THEN { lst.log.acknowledged[k].id : k \in 1..Len(lst.log.acknowledged) }
  ELSE {}

\* C17: a command leaves its queue only in the step of an ack that names its
\* device and its id: every enqueue, every poll and every other ack keeps it,
\* in its place relative to the others; a sent command that stays is
\* unchanged; and in every reachable state each command delivered and not
\* acknowledged is in its queue with status sent.
C17_RemovedOnlyByAck ==
  /\ [](\A d \in Devices : \A i \in Range(delivered[d]) \ acked[d] :
          \E k \in 1..Len(Queue(d)) : Queue(d)[k].id = i /\ Queue(d)[k].status = "sent")
  /\ [][\A d \in Devices :
          LET before == Queue(d)
              after == GetOr(deviceCommands', d, <<>>)
              gone == { i \in Range(IdsOf(before)) : ~HasId(after, i) }
          IN /\ gone \subseteq AckedInStep(last', d)
             /\ gone # {} => last' # last
             /\ IdsOf(WithoutIds(before, gone)) = SubSeq(IdsOf(after), 1, Len(before) - Cardinality(gone))
             /\ \A k \in 1..Len(before) :
                  (before[k].status = "sent" /\ before[k].id \notin gone) =>
                    \E j \in 1..Len(after) : after[j] = before[k]]_vars

\* after an ack removed one command of a device, its other command, delivered
\* at an earlier instant and not acknowledged, is still queued as sent
C17_Witness ==
  /\ last.op \in AckOps
  /\ last.SN \in Devices
  /\ last.log.acknowledged # <<>>
  /\ Len(Queue(last.SN)) = 1
  /\ Queue(last.SN)[1].status = "sent"
  /\ Queue(last.SN)[1].sentAt < now
  /\ Queue(last.SN)[1].id \notin acked[last.SN]

\* the ids a batch names, line by line: two lines in every combination, an
\* id that is not queued included, and three lines with repeats and in
\* several orders
IdBatches ==
  { <<i, j>> : i \in 1..(MaxCmds + 1), j \in 1..(MaxCmds + 1) }
  \cup { <<1, 2, 1>>, <<2, 2, 1>>, <<1, 1, 2>> }
  \cup { <<MaxCmds + 1, 1, 2>>, <<2, MaxCmds + 1, 1>>, <<2, 1, MaxCmds + 1>> }

BatchInfo(ids) == Join([k \in 1..Len(ids) |-> AckText(ids[k], OK)], <<"\n">>)

\* the lines of a batch sent as single-line batch acks, one after the other
Collect(acc, r) ==
  [deviceCommands |-> r.deviceCommands,
   done |-> acc.done \o r.done,
   unknown |-> acc.unknown \o r.unknown,
   allOK |-> acc.allOK /\ r.body = OK]

RECURSIVE OneByOne(_, _, _, _)
OneByOne(acc, d, ids, t) ==
  IF ids = <<>> THEN acc
  ELSE OneByOne(Collect(acc, DeviceCmd(acc.deviceCommands, BatchAckOf(d, Head(ids), OK), t)),
                d, Tail(ids), t)

\* C18: a batch ack naming several ids, in any order and with repeats, removes
\* the named ids that are in the device's queue and no other command, keeps
\* the others as they are and in order, leaves other devices alone, and gives
\* the same queues, acknowledged commands and unmatched ids as its lines sent
\* as single-line batch acks in the same order.
C18_BatchEqualsSingles ==
  \A d \in Devices, ids \in IdBatches :
    \A r \in {DeviceCmd(deviceCommands, [SN |-> Val(d), info |-> Val(BatchInfo(ids))], now)},
       s \in {OneByOne([deviceCommands |-> deviceCommands, done |-> <<>>,
                        unknown |-> <<>>, allOK |-> TRUE], d, ids, now)} :
      /\ r.body = OK
      /\ s.allOK
      /\ r.deviceCommands = s.deviceCommands
      /\ r.done = s.done
      /\ r.unknown = s.unknown
      /\ r.malformed = 0
      /\ GetOr(r.deviceCommands, d, <<>>) = WithoutIds(Queue(d), Range(ids))
      /\ Range(IdsOf(r.done)) = Range(ids) \cap Range(IdsOf(Queue(d)))
      /\ Len(r.done) + Len(r.unknown) = Len(ids)
      /\ \A e \in Devices \ {d} : GetOr(r.deviceCommands, e, <<>>) = Queue(e)

\* one batch acknowledged commands 2 and 1, in this order, and emptied the
\* device's queue
C18_Witness ==
  /\ last.op = "GET /iclock/devicecmd"
  /\ last.SN \in Devices
  /\ Len(last.log.acknowledged) = 2
  /\ last.log.acknowledged[1].id = 2
  /\ last.log.acknowledged[2].id = 1
  /\ last.SN \notin DOMAIN deviceCommands

\* C19: in every reachable state no key of the queue map is mapped to an
\* empty list, every queued command is pending or sent, and the keys are
\* exactly the devices with a command enqueued and not yet acknowledged.
C19_NoEmptyQueues ==
  /\ \A d \in DOMAIN deviceCommands :
       /\ Len(deviceCommands[d]) >= 1
       /\ \A k \in 1..Len(deviceCommands[d]) :
            deviceCommands[d][k].status \in {"pending", "sent"}
  /\ DOMAIN deviceCommands = { d \in Devices : Range(assigned[d]) \ acked[d] # {} }

\* the entry of one device is gone after its commands were acknowledged,
\* its counter stays, and the other device has an entry
C19_Witness ==
  \E d \in Devices :
    /\ d \notin DOMAIN deviceCommands
    /\ d \in DOMAIN deviceSeq
    /\ acked[d] # {}
    /\ DOMAIN deviceCommands = Devices \ {d}

(* ------------------------- a cooperating device ------------------------ *)
\* device d polls with its serial number
CoopPoll(d) ==
  \E r \in {GetRequest(deviceCommands, [SN |-> Val(d)], now)} :
    /\ deviceCommands' = r.deviceCommands
    /\ delivered' = IF r.sent = <<>> THEN delivered
                    ELSE [delivered EXCEPT ![d] = @ \o r.sent]
    /\ last' = [op |-> "GET /iclock/getrequest.aspx", SN |-> d, status |-> 200,
                body |-> r.body, sent |-> r.sent]
    /\ UNCHANGED <<deviceSeq, now, assigned, acked>>

\* device d acknowledges id i, which a poll response gave it and which it
\* has not acknowledged yet, in one of the two encodings and with either result
CoopAck(d, i) ==
  /\ i \in Range(delivered[d]) \ acked[d]
  /\ \/ \E res \in {OK, ERR} :
          \E r \in {DeviceCmd(deviceCommands, [SN |-> Val(d), info |-> Val(AckText(i, res))], now)} :
            AckStep("GET /iclock/devicecmd", d, r)
     \/ \E ret \in ReturnFields :
          \E r \in {DeviceCmdAspx(deviceCommands, [SN |-> Val(d)],
                                  [SN |-> Absent, ID |-> Val(ToString(i)), Return |-> ret,
                                   CMD |-> Val(CHECK)], now)} :
            AckStep("POST /iclock/devicecmd.aspx", d, r)

\* the operator side enqueues as it likes; the devices poll and acknowledge
\* what they were given
LiveNext ==
  \/ Tick
  \/ PostQueueCommandRoute
  \/ RequestUsersRoute
  \/ RequestAttendanceRoute
  \/ \E d \in Devices : CoopPoll(d)
  \/ \E d \in Devices, i \in 1..MaxCmds : CoopAck(d, i)

\* device d holds id i from a poll response and has not acknowledged it
AckDue(d, i) == i \in Range(delivered[d]) \ acked[d]

\* weak fairness of CoopAck(d, i) on the queue map, with the enabling condition
\* written out: it is AckDue(d, i), since an ack of a delivered id that was
\* not acknowledged finds its command and removes it
FairAck(d, i) ==
  []<>(~AckDue(d, i)) \/ []<><<CoopAck(d, i)>>_<<deviceCommands, acked>>

\* every device keeps polling and keeps acknowledging each id it received:
\* a poll that has something to deliver, and an ack that has its command to
\* remove, is not put off forever
LiveSpec ==
  /\ Init
  /\ [][LiveNext]_vars
  /\ \A d \in Devices : WF_<<deviceCommands, delivered>>(CoopPoll(d))
  /\ \A d \in Devices : \A i \in 1..MaxCmds : FairAck(d, i)

\* C20: with devices that keep polling and keep acknowledging every id they
\* received, every command enqueued for a device is eventually in a poll
\* response and eventually out of the queue, acknowledged; none stays pending
\* or sent forever.  An ack that is due is enabled: its command is queued
\* and every form of the ack removes it.
C20_EventuallyDeliveredAndRemoved ==
  /\ [](\A d \in Devices : \A i \in 1..MaxCmds :
          AckDue(d, i) =>
            /\ HasId(Queue(d), i)
            /\ \A f \in AckForms :
                 ~HasId(GetOr(AckBy(f, deviceCommands, d, i, now).deviceCommands, d, <<>>), i))
  /\ \A d \in Devices : \A i \in 1..MaxCmds :
       /\ (i \in Range(assigned[d])) ~> (i \in Range(delivered[d]))
       /\ (i \in Range(assigned[d])) ~> (i \in acked[d] /\ ~HasId(Queue(d), i))

\* both commands of a device were enqueued, delivered by polls and
\* acknowledged, and its queue is gone
C20_Witness ==
  \E d \in Devices :
    /\ assigned[d] = <<1, 2>>
    /\ delivered[d] = <<1, 2>>
    /\ acked[d] = {1, 2}
    /\ d \notin DOMAIN deviceCommands

====
